---------------------------- MODULE Spec2Model ----------------------------
(***************************************************************************)
(* StackIt: a browser Q&A forum (React).  The model covers                 *)
(*   - AuthContext.tsx      : current viewer, login / register / logout     *)
(*   - useNotifications.ts  : the notification hook (one state per caller)  *)
(*   - App.tsx              : the question listing (filter, sort, pages)    *)
(*   - QuestionDetailModal  : vote tally and answer submission              *)
(* Text is a sequence of one-character strings, so that toLowerCase,        *)
(* includes, substring and the mention regular expression are computed.     *)
(* An identifier string such as 'q1' or Date.now().toString() is the pair   *)
(* <<prefix, number>>.                                                      *)
(***************************************************************************)
EXTENDS Integers, Sequences, FiniteSets, TLC

VARIABLES
    now,              \* the wall clock, Date.now()
    user,             \* AuthProvider: the current viewer or NoUser
    storage,          \* localStorage['stackit_user'] or NoItem
    isLoading,        \* AuthProvider: TRUE until the startup load ran
    authCalls,        \* login / register calls inside their simulated delay
    authReturn,       \* what the last settled login / register promise resolved to
    notifications,    \* useNotifications: the list, per hook instance
    unreadCount,      \* useNotifications: the counter, per hook instance
    questions,        \* AppContent: the question collection
    searchQuery,      \* AppContent
    selectedTags,     \* AppContent
    sortBy,           \* AppContent
    currentPage,      \* AppContent
    selectedQuestion, \* AppContent: the question whose detail view is open
    showAuthModal,    \* AppContent
    showAskModal,     \* AppContent
    formData,         \* AskQuestionModal: title, description, tags
    newTag,           \* AskQuestionModal: the tag input's text
    askSubmitting,    \* AskQuestionModal: its isSubmitting
    error,            \* AskQuestionModal: the validation message
    askCalls,         \* handleSubmit calls inside their simulated delay
    answers,          \* QuestionDetailModal
    votes,            \* QuestionDetailModal: targetId -> [type, count]
    newAnswer,        \* QuestionDetailModal: the answer editor's text
    isSubmitting,     \* QuestionDetailModal
    answerCalls       \* handleSubmitAnswer calls inside their simulated delay

authVars   == <<user, storage, isLoading, authCalls, authReturn>>
notifVars  == <<notifications, unreadCount>>
listVars   == <<questions, searchQuery, selectedTags, sortBy, currentPage>>
detailVars == <<selectedQuestion, answers, votes, newAnswer, isSubmitting, answerCalls>>
askVars    == <<showAuthModal, showAskModal, formData, newTag, askSubmitting, error, askCalls>>
vars       == <<now, authVars, notifVars, listVars, detailVars, askVars>>

----------------------------------------------------------------------------
(* Bounds of the model *)

MaxTime == 1        \* clock readings explored after the start
MaxAuthCalls == 2   \* login / register calls in flight at once
MaxSubmitCalls == 2 \* submissions of one form in flight at once

----------------------------------------------------------------------------
(* Text *)

LowerChars == <<"a", "b", "c", "d", "e", "f", "g", "h", "i", "j", "k", "l", "m",
                "n", "o", "p", "q", "r", "s", "t", "u", "v", "w", "x", "y", "z">>
UpperChars == <<"A", "B", "C", "D", "E", "F", "G", "H", "I", "J", "K", "L", "M",
                "N", "O", "P", "Q", "R", "S", "T", "U", "V", "W", "X", "Y", "Z">>
DigitChars == <<"0", "1", "2", "3", "4", "5", "6", "7", "8", "9">>

Range(s) == {s[i] : i \in 1..Len(s)}

Min(a, b) == IF a < b THEN a ELSE b
Max(a, b) == IF a > b THEN a ELSE b

\* the regular expression class \w
WordChars == Range(LowerChars) \cup Range(UpperChars) \cup Range(DigitChars) \cup {"_"}

IsWordChar(c) == c \in WordChars

\* the white space String.prototype.trim removes
IsSpaceChar(c) == c \in {" ", "\t", "\n"}

\* Array.prototype.slice / String.prototype.substring for 0 <= a and 0 <= b
Slice(s, a, b) == SubSeq(s, Min(a, Len(s)) + 1, Min(b, Len(s)))

Substring(s, a, b) == Slice(s, Min(a, b), Max(a, b))

\* Array.prototype.filter: the elements at the indices in keep, in order
RECURSIVE SelectIdx(_, _, _)
SelectIdx(s, keep, i) ==
    IF i > Len(s) THEN <<>>
    ELSE (IF i \in keep THEN <<s[i]>> ELSE <<>>) \o SelectIdx(s, keep, i + 1)

Filter(s, keep) == SelectIdx(s, keep, 1)

\* s without its element at index e
WithoutIndex(s, e) == SubSeq(s, 1, e - 1) \o SubSeq(s, e + 1, Len(s))

\* Array.prototype.includes
Includes(s, x) == \E i \in 1..Len(s) : s[i] = x

----------------------------------------------------------------------------
(* Identifiers, viewers *)

Id(prefix, n) == <<prefix, n>>

\* Date.now() when the page is loaded
StartTime == 100

NoUser == [none |-> TRUE]
NoItem == <<>>
NoReturn == <<>>

alice == <<"a", "l", "i", "c", "e">>
carol == <<"c", "a", "r", "o", "l">>
demo_user == <<"d", "e", "m", "o", "_", "u", "s", "e", "r">>

\* the user names tried with register
RegisterNames == {alice, carol}

demoUser == [id |-> Id("", 1), username |-> demo_user, email |-> "demo@stackit.com",
             role |-> "user", reputation |-> 1250]

newUser(username, email, t) ==
    [id |-> Id("", t), username |-> username, email |-> email,
     role |-> "user", reputation |-> 0]

\* JSON.stringify / JSON.parse of a User: the object's own keys in order
Stringify(u) ==
    << <<"id", u.id>>, <<"username", u.username>>, <<"email", u.email>>,
       <<"role", u.role>>, <<"reputation", u.reputation>> >>

Field(json, key) == (CHOOSE i \in 1..Len(json) : json[i][1] = key)

Parse(json) ==
    [id |-> json[Field(json, "id")][2], username |-> json[Field(json, "username")][2],
     email |-> json[Field(json, "email")][2], role |-> json[Field(json, "role")][2],
     reputation |-> json[Field(json, "reputation")][2]]

----------------------------------------------------------------------------
(* useNotifications *)

\* the components that call useNotifications(): each call has its own state
Instances == {"header", "ask", "detail"}

\* a message is <<literal text, interpolated text, literal text>>
Msg(a, mid, b) == <<a, mid, b>>

mockNotifications(u, t) ==
    << [id |-> Id("", 1), userId |-> u.id, type |-> "answer",
        message |-> Msg("react_expert answered your question \"How to implement React hooks properly?\"", <<>>, ""),
        relatedId |-> Id("q", 1), read |-> FALSE, createdAt |-> t - 1000 * 60 * 30],
       [id |-> Id("", 2), userId |-> u.id, type |-> "mention",
        message |-> Msg("hooks_master mentioned you in an answer: \"As @demo_user suggested, this approach works well...\"", <<>>, ""),
        relatedId |-> Id("a", 2), read |-> FALSE, createdAt |-> t - 1000 * 60 * 60 * 2],
       [id |-> Id("", 3), userId |-> u.id, type |-> "accept",
        message |-> Msg("Your answer was accepted as the best solution for \"CSS Grid vs Flexbox\"", <<>>, ""),
        relatedId |-> Id("a", 3), read |-> TRUE, createdAt |-> t - 1000 * 60 * 60 * 24],
       [id |-> Id("", 4), userId |-> u.id, type |-> "mention",
        message |-> Msg("css_ninja mentioned you: \"Thanks @demo_user for the detailed explanation!\"", <<>>, ""),
        relatedId |-> Id("a", 4), read |-> FALSE, createdAt |-> t - 1000 * 60 * 60 * 4],
       [id |-> Id("", 5), userId |-> u.id, type |-> "answer",
        message |-> Msg("js_wizard answered your question \"JavaScript async/await vs Promises\"", <<>>, ""),
        relatedId |-> Id("q", 3), read |-> TRUE, createdAt |-> t - 1000 * 60 * 60 * 48] >>

\* the number of records with read = false
Unread(list) == Cardinality({i \in 1..Len(list) : ~list[i].read})

\* the state of one hook instance
Hook(list, unread) == [list |-> list, unread |-> unread]

\* useEffect(..., [user]): runs when the viewer changes (and on mount)
userEffect(u, t) ==
    IF u = NoUser THEN Hook(<<>>, 0)
    ELSE Hook(mockNotifications(u, t), Unread(mockNotifications(u, t)))

\* rType and rMessage are the outcomes of the two Math.random() > 0.5
timerType(rType) == IF rType THEN "mention" ELSE "answer"

timerMessage(u, rMessage) ==
    IF rMessage THEN Msg("Someone mentioned you: \"@", u.username, " your solution is perfect!\"")
    ELSE Msg("Someone answered your recent question", <<>>, "")

\* the interval callback, when Math.random() < 0.1
timerNotification(u, t, rType, rMessage) ==
    [id |-> Id("", t), userId |-> u.id, type |-> timerType(rType),
     message |-> timerMessage(u, rMessage),
     relatedId |-> Id("new", 0), read |-> FALSE, createdAt |-> t]

timerInject(h, n) == Hook(<<n>> \o Slice(h.list, 0, 9), h.unread + 1)

markAsReadList(list, notificationId) ==
    [i \in 1..Len(list) |->
        IF list[i].id = notificationId THEN [list[i] EXCEPT !.read = TRUE] ELSE list[i]]

markAsRead(h, notificationId) ==
    Hook(markAsReadList(h.list, notificationId), Max(0, h.unread - 1))

markAllAsRead(h) ==
    Hook([i \in 1..Len(h.list) |-> [h.list[i] EXCEPT !.read = TRUE]], 0)

\* addNotification that keeps every earlier record
addNotificationUncapped(h, u, n, t) ==
    IF u = NoUser THEN h
    ELSE Hook(<< [id |-> Id("", t), userId |-> u.id, type |-> n.type, message |-> n.message,
                  relatedId |-> n.relatedId, read |-> n.read, createdAt |-> t] >>
              \o h.list,
              h.unread + 1)

\* u is the viewer of the render whose closure is called
addNotification(h, u, n, t) ==
    IF u = NoUser THEN h
    ELSE Hook(<< [id |-> Id("", t), userId |-> u.id, type |-> n.type, message |-> n.message,
                  relatedId |-> n.relatedId, read |-> n.read, createdAt |-> t] >>
              \o Slice(h.list, 0, 9),
              h.unread + 1)

\* the index of the last character of the run of \w characters that starts at i
RECURSIVE wordEnd(_, _)
wordEnd(text, i) ==
    IF i + 1 <= Len(text) /\ IsWordChar(text[i + 1]) THEN wordEnd(text, i + 1) ELSE i

\* text.match(/@(\w+)/g): the matched tokens from position i on, left to right
RECURSIVE matchMentions(_, _)
matchMentions(text, i) ==
    IF i > Len(text) THEN <<>>
    ELSE IF text[i] = "@" /\ i + 1 <= Len(text) /\ IsWordChar(text[i + 1])
         THEN <<SubSeq(text, i, wordEnd(text, i + 1))>>
              \o matchMentions(text, wordEnd(text, i + 1) + 1)
         ELSE matchMentions(text, i + 1)

\* a mention notification that quotes the whole text
mentionNotificationWholeText(text, relatedId, type) ==
    [type |-> "mention",
     message |-> Msg(IF type = "answer" THEN "You were mentioned in an answer: \""
                                       ELSE "You were mentioned in a comment: \"",
                     text, "...\""),
     relatedId |-> relatedId, read |-> FALSE]

mentionNotification(text, relatedId, type) ==
    [type |-> "mention",
     message |-> Msg(IF type = "answer" THEN "You were mentioned in an answer: \""
                                       ELSE "You were mentioned in a comment: \"",
                     Substring(text, 0, 50), "...\""),
     relatedId |-> relatedId, read |-> FALSE]

\* a forEach that notifies the viewer of every token, whoever is named
RECURSIVE forEachMentionAnyName(_, _, _, _, _, _, _, _)
forEachMentionAnyName(h, u, mentions, k, text, relatedId, type, t) ==
    IF k > Len(mentions) THEN h
    ELSE LET h2 == IF u # NoUser
                   THEN addNotification(h, u, mentionNotification(text, relatedId, type), t)
                   ELSE h
         IN forEachMentionAnyName(h2, u, mentions, k + 1, text, relatedId, type, t)

\* mentions.forEach(...) over the tokens from index k on
RECURSIVE forEachMention(_, _, _, _, _, _, _, _)
forEachMention(h, u, mentions, k, text, relatedId, type, t) ==
    IF k > Len(mentions) THEN h
    ELSE LET username == Substring(mentions[k], 1, Len(mentions[k]))
             h2 == IF u # NoUser /\ username = u.username
                   THEN addNotification(h, u, mentionNotification(text, relatedId, type), t)
                   ELSE h
         IN forEachMention(h2, u, mentions, k + 1, text, relatedId, type, t)

processMentions(h, u, text, relatedId, type, t) ==
    forEachMention(h, u, matchMentions(text, 1), 1, text, relatedId, type, t)


----------------------------------------------------------------------------
(* The state after construction *)

NoQuestion == [none |-> TRUE]
NoVotes == [target \in {} |-> 0]

\* the hook instances that are mounted: the detail view only while it is open
Mounted(sel) == IF sel = NoQuestion THEN {"header", "ask"} ELSE Instances

\* every mounted hook instance runs its [user] effect
notificationsAfter(u, sel, t) ==
    [i \in Instances |-> IF i \in Mounted(sel) THEN userEffect(u, t).list ELSE <<>>]

unreadCountAfter(u, sel, t) ==
    [i \in Instances |-> IF i \in Mounted(sel) THEN userEffect(u, t).unread ELSE 0]

\* the viewers a previous session may have left in localStorage: the demo
\* user after a login, or a user registered a second before this page load
SavedUsers(names) ==
    {demoUser} \cup {newUser(name, "new@stackit.com", StartTime - 1000) : name \in names}

InitAuth(names) ==
    /\ now = StartTime
    /\ user = NoUser
    /\ storage \in {NoItem} \cup {Stringify(u) : u \in SavedUsers(names)}
    /\ isLoading = TRUE
    /\ authCalls = {}
    /\ authReturn = NoReturn
    /\ notifications = [i \in Instances |-> <<>>]
    /\ unreadCount = [i \in Instances |-> 0]

\* useState initial values of AppContent's modal flags and of AskQuestionModal
emptyForm == [title |-> <<>>, description |-> <<>>, tags |-> <<>>]

InitAsk ==
    /\ showAuthModal = FALSE
    /\ showAskModal = FALSE
    /\ formData = emptyForm
    /\ newTag = <<>>
    /\ askSubmitting = FALSE
    /\ error = ""
    /\ askCalls = <<>>

InitDetail ==
    /\ selectedQuestion = NoQuestion
    /\ answers = <<>>
    /\ votes = NoVotes
    /\ newAnswer = <<>>
    /\ isSubmitting = FALSE
    /\ answerCalls = <<>>

----------------------------------------------------------------------------
(* AuthContext *)

\* useEffect(..., []) of AuthProvider
Startup ==
    /\ isLoading
    /\ isLoading' = FALSE
    /\ IF storage # NoItem
       THEN /\ user' = Parse(storage)
            /\ notifications' = notificationsAfter(Parse(storage), selectedQuestion, now)
            /\ unreadCount' = unreadCountAfter(Parse(storage), selectedQuestion, now)
       ELSE UNCHANGED <<user, notifications, unreadCount>>
    /\ UNCHANGED <<askVars, now, storage, authCalls, authReturn, listVars, detailVars>>

\* the value a settled login / register promise resolved to
Returned(call, value) == [call |-> call, value |-> value]

Credentials == { <<"demo@stackit.com", "demo123">>, <<"demo@stackit.com", "wrong">>,
                 <<"other@stackit.com", "demo123">> }

\* login, up to the await
LoginStart(email, password) ==
    /\ ~isLoading
    /\ Cardinality(authCalls) < MaxAuthCalls
    /\ authCalls' = authCalls \cup {[kind |-> "login", email |-> email, password |-> password]}
    /\ UNCHANGED <<askVars, now, user, storage, isLoading, authReturn, notifVars, listVars, detailVars>>

\* login that accepts every password for the demo address
LoginFinishAnyPassword(call) ==
    /\ call \in authCalls
    /\ call.kind = "login"
    /\ authCalls' = authCalls \ {call}
    /\ IF call.email = "demo@stackit.com"
       THEN /\ user' = demoUser
            /\ storage' = Stringify(demoUser)
            /\ notifications' = notificationsAfter(demoUser, selectedQuestion, now)
            /\ unreadCount' = unreadCountAfter(demoUser, selectedQuestion, now)
            /\ authReturn' = Returned(call, TRUE)
       ELSE /\ UNCHANGED <<user, storage, notifications, unreadCount>>
            /\ authReturn' = Returned(call, FALSE)
    /\ UNCHANGED <<askVars, now, isLoading, listVars, detailVars>>

\* login, after the await
LoginFinish(call) ==
    /\ call \in authCalls
    /\ call.kind = "login"
    /\ authCalls' = authCalls \ {call}
    /\ IF call.email = "demo@stackit.com" /\ call.password = "demo123"
       THEN /\ user' = demoUser
            /\ storage' = Stringify(demoUser)
            /\ notifications' = notificationsAfter(demoUser, selectedQuestion, now)
            /\ unreadCount' = unreadCountAfter(demoUser, selectedQuestion, now)
            /\ authReturn' = Returned(call, TRUE)
       ELSE /\ UNCHANGED <<user, storage, notifications, unreadCount>>
            /\ authReturn' = Returned(call, FALSE)
    /\ UNCHANGED <<askVars, now, isLoading, listVars, detailVars>>

\* register, up to the await
RegisterStart(username) ==
    /\ ~isLoading
    /\ Cardinality(authCalls) < MaxAuthCalls
    /\ authCalls' = authCalls \cup {[kind |-> "register", username |-> username,
                                     email |-> "new@stackit.com"]}
    /\ UNCHANGED <<askVars, now, user, storage, isLoading, authReturn, notifVars, listVars, detailVars>>

\* register, after the await
RegisterFinish(call) ==
    /\ call \in authCalls
    /\ call.kind = "register"
    /\ now < StartTime + MaxTime
    /\ now' = now + 1
    /\ authCalls' = authCalls \ {call}
    /\ user' = newUser(call.username, call.email, now)
    /\ storage' = Stringify(newUser(call.username, call.email, now))
    /\ notifications' = notificationsAfter(user', selectedQuestion, now)
    /\ unreadCount' = unreadCountAfter(user', selectedQuestion, now)
    /\ authReturn' = Returned(call, TRUE)
    /\ UNCHANGED <<askVars, isLoading, listVars, detailVars>>

\* logout that leaves the stored record
LogoutKeepingStorage ==
    /\ ~isLoading
    /\ user # NoUser
    /\ user' = NoUser
    /\ notifications' = notificationsAfter(NoUser, selectedQuestion, now)
    /\ unreadCount' = unreadCountAfter(NoUser, selectedQuestion, now)
    /\ UNCHANGED <<askVars, now, storage, isLoading, authCalls, authReturn, listVars, detailVars>>

Logout ==
    /\ ~isLoading
    /\ user # NoUser
    /\ user' = NoUser
    /\ storage' = NoItem
    /\ notifications' = notificationsAfter(NoUser, selectedQuestion, now)
    /\ unreadCount' = unreadCountAfter(NoUser, selectedQuestion, now)
    /\ UNCHANGED <<askVars, now, isLoading, authCalls, authReturn, listVars, detailVars>>

----------------------------------------------------------------------------
(* useNotifications: the calls on one hook instance *)

HookOf(inst) == Hook(notifications[inst], unreadCount[inst])

SetHook(inst, h) ==
    /\ notifications' = [notifications EXCEPT ![inst] = h.list]
    /\ unreadCount' = [unreadCount EXCEPT ![inst] = h.unread]

\* the interval set by the effect while a viewer exists
TimerInject(inst, rType, rMessage) ==
    /\ ~isLoading
    /\ user # NoUser
    /\ inst \in Mounted(selectedQuestion)
    /\ now < StartTime + MaxTime
    /\ now' = now + 1
    /\ SetHook(inst, timerInject(HookOf(inst), timerNotification(user, now, rType, rMessage)))
    /\ UNCHANGED <<askVars, authVars, listVars, detailVars>>

MarkAsRead(inst, notificationId) ==
    /\ ~isLoading
    /\ inst \in Mounted(selectedQuestion)
    /\ SetHook(inst, markAsRead(HookOf(inst), notificationId))
    /\ UNCHANGED <<askVars, now, authVars, listVars, detailVars>>

MarkAllAsRead(inst) ==
    /\ ~isLoading
    /\ inst \in Mounted(selectedQuestion)
    /\ SetHook(inst, markAllAsRead(HookOf(inst)))
    /\ UNCHANGED <<askVars, now, authVars, listVars, detailVars>>

\* the notifications passed to addNotification directly
DirectNotifications ==
    { [type |-> "accept", message |-> Msg("Your answer was accepted", <<>>, ""),
       relatedId |-> Id("a", 1), read |-> r] : r \in BOOLEAN }

AddNotification(inst, n) ==
    /\ ~isLoading
    /\ inst \in Mounted(selectedQuestion)
    /\ now < StartTime + MaxTime
    /\ now' = IF user = NoUser THEN now ELSE now + 1
    /\ SetHook(inst, addNotification(HookOf(inst), user, n, now))
    /\ UNCHANGED <<askVars, authVars, listVars, detailVars>>

TextThanks == <<"t", "h", "a", "n", "k", "s", " ", "@", "a", "l", "i", "c", "e", " ",
                "a", "n", "d", " ", "@", "b", "o", "b">>
TextTwice == <<"@", "a", "l", "i", "c", "e", " ", "@", "a", "l", "i", "c", "e">>
TextNear == <<"@", "a", "l", "i", "c", "e", "x", " ", "@", "A", "l", "i", "c", "e", " ",
              "x", "@", "c", "a", "r", "o", "l">>
TextLong == <<"@", "d", "e", "m", "o", "_", "u", "s", "e", "r", " ", "t", "h", "i", "s", " ",
              "a", "n", "s", "w", "e", "r", " ", "i", "s", " ", "l", "o", "n", "g", "e", "r", " ",
              "t", "h", "a", "n", " ", "f", "i", "f", "t", "y", " ", "c", "h", "a", "r", "a", "c",
              "t", "e", "r", "s", " ", "i", "n", " ", "t", "o", "t", "a", "l">>

\* six mentions of the demo user in one text
TextMany == <<"@", "d", "e", "m", "o", "_", "u", "s", "e", "r", " ",
              "@", "d", "e", "m", "o", "_", "u", "s", "e", "r", " ",
              "@", "d", "e", "m", "o", "_", "u", "s", "e", "r", " ",
              "@", "d", "e", "m", "o", "_", "u", "s", "e", "r", " ",
              "@", "d", "e", "m", "o", "_", "u", "s", "e", "r", " ",
              "@", "d", "e", "m", "o", "_", "u", "s", "e", "r">>

\* the texts scanned for mentions
Texts == {TextThanks, TextTwice, TextNear, TextLong, TextMany}

ProcessMentions(inst, text, relatedId, type) ==
    /\ ~isLoading
    /\ inst \in Mounted(selectedQuestion)
    /\ now < StartTime + MaxTime
    /\ LET h == processMentions(HookOf(inst), user, text, relatedId, type, now)
       IN /\ SetHook(inst, h)
          /\ now' = IF h = HookOf(inst) THEN now ELSE now + 1
    /\ UNCHANGED <<askVars, authVars, listVars, detailVars>>

\* the hook instance whose calls the notification specification explores
HookScope == {"header"}

NextAuth ==
    \/ Startup
    \/ \E c \in Credentials : LoginStart(c[1], c[2])
    \/ \E call \in authCalls : LoginFinish(call)
    \/ \E name \in RegisterNames : RegisterStart(name)
    \/ \E call \in authCalls : RegisterFinish(call)
    \/ Logout

\* the timer and the functions of the hook that add records
NextHookAdds ==
    \E inst \in HookScope :
        \/ \E rType \in BOOLEAN, rMessage \in BOOLEAN : TimerInject(inst, rType, rMessage)
        \/ \E n \in DirectNotifications : AddNotification(inst, n)
        \/ \E text \in Texts, type \in {"answer", "comment"} :
              ProcessMentions(inst, text, Id("q", 1), type)

\* the functions of the hook that mark records
NextHookMarks ==
    \E inst \in HookScope :
        \/ \E id \in {notifications[inst][i].id : i \in 1..Len(notifications[inst])}
                     \cup {Id("", 0)} : MarkAsRead(inst, id)
        \/ MarkAllAsRead(inst)

\* the timer and every function the hook returns
NextHook == NextHookAdds \/ NextHookMarks

----------------------------------------------------------------------------
(* App.tsx: the question listing *)

ITEMS_PER_PAGE == 6

MaxMock == 12       \* the largest initial question collection explored

\* String.prototype.toLowerCase
UpperSet == Range(UpperChars)

lowerChar(c) ==
    IF c \in UpperSet
    THEN LowerChars[CHOOSE i \in 1..Len(UpperChars) : UpperChars[i] = c]
    ELSE c

toLowerCase(s) == [i \in 1..Len(s) |-> lowerChar(s[i])]

\* String.prototype.includes
includes(s, sub) ==
    \E i \in 0..(Len(s) - Len(sub)) : SubSeq(s, i + 1, i + Len(sub)) = sub

\* String.prototype.trim
RECURSIVE trimStart(_)
trimStart(s) == IF s # <<>> /\ IsSpaceChar(Head(s)) THEN trimStart(Tail(s)) ELSE s

RECURSIVE trimEnd(_)
trimEnd(s) ==
    IF s # <<>> /\ IsSpaceChar(s[Len(s)]) THEN trimEnd(SubSeq(s, 1, Len(s) - 1)) ELSE s

trim(s) == trimEnd(trimStart(s))

\* the mock question collection: titles, descriptions, tags and counters vary
\* with the position so that keys tie and filters select proper sublists
MockTitles == << <<"R", "e", "a", "c", "t">>, <<"c", "s", "s">>, <<"J", "S">> >>
MockDescriptions == << <<"h", "o", "o", "k">>, <<"G", "r", "i", "d">> >>
MockTags == << << <<"j", "s">> >>, << <<"c", "s", "s">>, <<"u", "i">> >>,
               << <<"u", "i">> >>, << <<"j", "s">>, <<"u", "i">> >> >>

mockQuestion(i) ==
    [id |-> Id("q", i),
     title |-> MockTitles[(i % 3) + 1],
     description |-> MockDescriptions[(i % 2) + 1],
     tags |-> MockTags[(i % 4) + 1],
     authorId |-> Id("", (i % 3) + 1),
     createdAt |-> StartTime - 1000 * 60 * 60 * ((i * 5) % 7),
     views |-> 10 * i,
     votes |-> (i * 3) % 5,
     answerCount |-> i % 3]

mockQuestions(n) == [i \in 1..n |-> mockQuestion(i)]

\* useMemo allTags: the tags of the collection (as a set; the order of the tag list
\* does not enter any computation)
allTags(qs) == UNION {Range(qs[i].tags) : i \in 1..Len(qs)}

\* matchesSearch that looks at the title only
matchesSearchTitleOnly(question, query) ==
    \/ query = <<>>
    \/ includes(toLowerCase(question.title), toLowerCase(query))

matchesSearch(question, query) ==
    \/ query = <<>>
    \/ includes(toLowerCase(question.title), toLowerCase(query))
    \/ includes(toLowerCase(question.description), toLowerCase(query))

\* matchesTags that asks for every selected tag
matchesTagsEvery(question, tags) ==
    \/ Len(tags) = 0
    \/ \A i \in 1..Len(tags) : Includes(question.tags, tags[i])

matchesTags(question, tags) ==
    \/ Len(tags) = 0
    \/ \E i \in 1..Len(tags) : Includes(question.tags, tags[i])

matchesBoth(question, query, tags) ==
    matchesSearch(question, query) /\ matchesTags(question, tags)

filterQuestions(qs, query, tags) ==
    Filter(qs, {i \in 1..Len(qs) : matchesBoth(qs[i], query, tags)})

\* the comparator given to Array.prototype.sort
compare(a, b, key) ==
    CASE key = "newest" -> b.createdAt - a.createdAt
      [] key = "votes" -> b.votes - a.votes
      [] key = "answers" -> b.answerCount - a.answerCount
      [] OTHER -> 0

\* an insertion that puts x ahead of the elements with an equal key
RECURSIVE insertSortedAheadOfTies(_, _, _)
insertSortedAheadOfTies(sorted, x, key) ==
    IF sorted = <<>> THEN <<x>>
    ELSE IF compare(sorted[Len(sorted)], x, key) >= 0
         THEN insertSortedAheadOfTies(SubSeq(sorted, 1, Len(sorted) - 1), x, key)
              \o <<sorted[Len(sorted)]>>
         ELSE sorted \o <<x>>

\* Array.prototype.sort is stable (ECMAScript 2019): x goes behind every
\* element it does not have to precede
RECURSIVE insertSorted(_, _, _)
insertSorted(sorted, x, key) ==
    IF sorted = <<>> THEN <<x>>
    ELSE IF compare(sorted[Len(sorted)], x, key) > 0
         THEN insertSorted(SubSeq(sorted, 1, Len(sorted) - 1), x, key)
              \o <<sorted[Len(sorted)]>>
         ELSE sorted \o <<x>>

RECURSIVE sortFrom(_, _, _, _)
sortFrom(sorted, s, i, key) ==
    IF i > Len(s) THEN sorted
    ELSE sortFrom(insertSorted(sorted, s[i], key), s, i + 1, key)

sort(s, key) == sortFrom(<<>>, s, 1, key)

filtered(qs, query, tags, key) == sort(filterQuestions(qs, query, tags), key)

filteredQuestions == filtered(questions, searchQuery, selectedTags, sortBy)

\* Math.floor in the place of Math.ceil
floorDiv(n, d) == n \div d

\* Math.ceil(n / d) for n >= 0 and d > 0
ceilDiv(n, d) == IF n % d = 0 THEN n \div d ELSE (n \div d) + 1

pageCount(list) == ceilDiv(Len(list), ITEMS_PER_PAGE)

totalPages == pageCount(filteredQuestions)

\* the slice of a page number taken as 0-based
pageZeroBased(list, p) == Slice(list, p * ITEMS_PER_PAGE, (p + 1) * ITEMS_PER_PAGE)

page(list, p) == Slice(list, (p - 1) * ITEMS_PER_PAGE, p * ITEMS_PER_PAGE)

paginatedQuestions == page(filteredQuestions, currentPage)

InitListing(n) ==
    /\ questions = mockQuestions(n)
    /\ searchQuery = <<>>
    /\ selectedTags = <<>>
    /\ sortBy = "newest"
    /\ currentPage = 1

\* the search texts typed into the header
Queries == { <<>>, <<"r", "E">>, <<"S">>, <<"q">> }

SortKeys == {"newest", "votes", "answers"}

\* onSearchChange that leaves the page where it is
OnSearchChangeKeepingPage(query) ==
    /\ ~isLoading
    /\ searchQuery' = query
    /\ UNCHANGED <<askVars, now, authVars, notifVars, questions, selectedTags, sortBy,
                   currentPage, detailVars>>

OnSearchChange(query) ==
    /\ ~isLoading
    /\ searchQuery' = query
    /\ currentPage' = 1
    /\ UNCHANGED <<askVars, now, authVars, notifVars, questions, selectedTags, sortBy, detailVars>>

handleTagToggle(prev, tag) ==
    IF Includes(prev, tag)
    THEN Filter(prev, {i \in 1..Len(prev) : prev[i] # tag})
    ELSE prev \o <<tag>>

HandleTagToggle(tag) ==
    /\ ~isLoading
    /\ tag \in allTags(questions)
    /\ selectedTags' = handleTagToggle(selectedTags, tag)
    /\ currentPage' = 1
    /\ UNCHANGED <<askVars, now, authVars, notifVars, questions, searchQuery, sortBy, detailVars>>

\* a sort radio button that leaves the page where it is
SortChangeKeepingPage(key) ==
    /\ ~isLoading
    /\ sortBy' = key
    /\ UNCHANGED <<askVars, now, authVars, notifVars, questions, searchQuery, selectedTags,
                   currentPage, detailVars>>

SortChange(key) ==
    /\ ~isLoading
    /\ sortBy' = key
    /\ currentPage' = 1
    /\ UNCHANGED <<askVars, now, authVars, notifVars, questions, searchQuery, selectedTags, detailVars>>

\* 'Clear all' is rendered while a tag is selected or the query is not empty
ClearFilters ==
    /\ ~isLoading
    /\ (Len(selectedTags) > 0 \/ searchQuery # <<>>)
    /\ selectedTags' = <<>>
    /\ searchQuery' = <<>>
    /\ sortBy' = "newest"
    /\ currentPage' = 1
    /\ UNCHANGED <<askVars, now, authVars, notifVars, questions, detailVars>>

\* the pagination controls are rendered while totalPages > 1
PreviousPage ==
    /\ ~isLoading
    /\ totalPages > 1
    /\ currentPage # 1
    /\ currentPage' = Max(1, currentPage - 1)
    /\ UNCHANGED <<askVars, now, authVars, notifVars, questions, searchQuery, selectedTags, sortBy, detailVars>>

NextPage ==
    /\ ~isLoading
    /\ totalPages > 1
    /\ currentPage # totalPages
    /\ currentPage' = Min(totalPages, currentPage + 1)
    /\ UNCHANGED <<askVars, now, authVars, notifVars, questions, searchQuery, selectedTags, sortBy, detailVars>>

PageClick(p) ==
    /\ ~isLoading
    /\ totalPages > 1
    /\ p \in 1..totalPages
    /\ currentPage' = p
    /\ UNCHANGED <<askVars, now, authVars, notifVars, questions, searchQuery, selectedTags, sortBy, detailVars>>

\* the forms submitted with 'Post Your Question' (title, description, tags)
QuestionForms ==
    { [title |-> <<" ", "J", "s", " ">>, description |-> <<"r", "e", "f">>,
       tags |-> << <<"j", "s">> >>],
      [title |-> <<"N", "e", "w">>,
       description |-> <<"G", "a", "p", "s", " ", "@", "d", "e", "m", "o", "_", "u", "s", "e", "r">>,
       tags |-> << <<"c", "s", "s">>, <<"u", "i">> >>] }

\* a record built from the title and the description as they were typed
newQuestionUntrimmed(form, u, t) ==
    [id |-> Id("q", t),
     title |-> form.title,
     description |-> form.description,
     tags |-> form.tags,
     authorId |-> u.id,
     createdAt |-> t,
     views |-> 0,
     votes |-> 0,
     answerCount |-> 0]

\* the record handleSubmit builds after the simulated delay
newQuestion(form, u, t) ==
    [id |-> Id("q", t),
     title |-> trim(form.title),
     description |-> trim(form.description),
     tags |-> form.tags,
     authorId |-> u.id,
     createdAt |-> t,
     views |-> 0,
     votes |-> 0,
     answerCount |-> 0]

\* an updater that puts the new question in the place of the first one
handleQuestionSubmittedInPlace(prev, question) ==
    IF prev = <<>> THEN <<question>> ELSE <<question>> \o Tail(prev)

handleQuestionSubmitted(prev, question) == <<question>> \o prev

\* handleSubmit of the ask-question form after its delay, for the viewer who
\* submitted: the record is built, the description is scanned for mentions by
\* the form's hook instance, and onQuestionSubmitted runs in AppContent
HandleQuestionSubmitted(form) ==
    /\ ~isLoading
    /\ user # NoUser
    /\ now < StartTime + MaxTime
    /\ now' = now + 1
    /\ SetHook("ask", processMentions(HookOf("ask"), user, form.description,
                                      Id("q", now), "answer", now))
    /\ questions' = handleQuestionSubmitted(questions, newQuestion(form, user, now))
    /\ currentPage' = 1
    /\ UNCHANGED <<askVars, authVars, searchQuery, selectedTags, sortBy, detailVars>>

NextListing ==
    \/ \E query \in Queries : OnSearchChange(query)
    \/ \E tag \in allTags(questions) : HandleTagToggle(tag)
    \/ \E key \in SortKeys : SortChange(key)
    \/ ClearFilters
    \/ PreviousPage
    \/ NextPage
    \/ \E p \in 1..totalPages : PageClick(p)
    \/ \E form \in QuestionForms : HandleQuestionSubmitted(form)

----------------------------------------------------------------------------
(* AskQuestionModal and the modal flags of AppContent *)

\* onLoginClick of the header
OnLoginClick ==
    /\ ~isLoading
    /\ showAuthModal' = TRUE
    /\ UNCHANGED <<now, authVars, notifVars, listVars, detailVars, showAskModal, formData,
                   newTag, askSubmitting, error, askCalls>>

\* onClose of AuthModal
CloseAuthModal ==
    /\ ~isLoading
    /\ showAuthModal
    /\ showAuthModal' = FALSE
    /\ UNCHANGED <<now, authVars, notifVars, listVars, detailVars, showAskModal, formData,
                   newTag, askSubmitting, error, askCalls>>

\* the 'Ask Question' buttons
HandleAskQuestion ==
    /\ ~isLoading
    /\ IF user = NoUser
       THEN showAuthModal' = TRUE /\ UNCHANGED showAskModal
       ELSE showAskModal' = TRUE /\ UNCHANGED showAuthModal
    /\ UNCHANGED <<now, authVars, notifVars, listVars, detailVars, formData, newTag,
                   askSubmitting, error, askCalls>>

\* the texts typed into the title, the description and the tag input
TitleTexts == { <<" ", " ">>, <<" ", "J", "s", " ">> }
DescriptionTexts == { <<"\n">>, <<"G", "a", "p", "s", " ", "@", "d", "e", "m", "o", "_", "u", "s", "e", "r">> }
TagTexts == { <<" ">>, <<" ", "u", "i", " ">> }

SetTitle(text) ==
    /\ ~isLoading
    /\ showAskModal
    /\ formData' = [formData EXCEPT !.title = text]
    /\ UNCHANGED <<now, authVars, notifVars, listVars, detailVars, showAuthModal, showAskModal,
                   newTag, askSubmitting, error, askCalls>>

SetDescription(text) ==
    /\ ~isLoading
    /\ showAskModal
    /\ formData' = [formData EXCEPT !.description = text]
    /\ UNCHANGED <<now, authVars, notifVars, listVars, detailVars, showAuthModal, showAskModal,
                   newTag, askSubmitting, error, askCalls>>

\* the tag input is disabled at 5 tags
SetNewTag(text) ==
    /\ ~isLoading
    /\ showAskModal
    /\ Len(formData.tags) < 5
    /\ newTag' = text
    /\ UNCHANGED <<now, authVars, notifVars, listVars, detailVars, showAuthModal, showAskModal,
                   formData, askSubmitting, error, askCalls>>

\* addTag that does not look for the tag in the list
AddTagAgain ==
    /\ ~isLoading
    /\ showAskModal
    /\ IF /\ trim(newTag) # <<>>
          /\ Len(formData.tags) < 5
       THEN /\ formData' = [formData EXCEPT !.tags = formData.tags \o <<trim(newTag)>>]
            /\ newTag' = <<>>
       ELSE UNCHANGED <<formData, newTag>>
    /\ UNCHANGED <<now, authVars, notifVars, listVars, detailVars, showAuthModal, showAskModal,
                   askSubmitting, error, askCalls>>

\* addTag, from the add button or the Enter key of the tag input
AddTag ==
    /\ ~isLoading
    /\ showAskModal
    /\ IF /\ trim(newTag) # <<>>
          /\ ~Includes(formData.tags, trim(newTag))
          /\ Len(formData.tags) < 5
       THEN /\ formData' = [formData EXCEPT !.tags = formData.tags \o <<trim(newTag)>>]
            /\ newTag' = <<>>
       ELSE UNCHANGED <<formData, newTag>>
    /\ UNCHANGED <<now, authVars, notifVars, listVars, detailVars, showAuthModal, showAskModal,
                   askSubmitting, error, askCalls>>

RemoveTag(tagToRemove) ==
    /\ ~isLoading
    /\ showAskModal
    /\ Includes(formData.tags, tagToRemove)
    /\ formData' = [formData EXCEPT !.tags =
                       Filter(formData.tags, {i \in 1..Len(formData.tags) :
                                                 formData.tags[i] # tagToRemove})]
    /\ UNCHANGED <<now, authVars, notifVars, listVars, detailVars, showAuthModal, showAskModal,
                   newTag, askSubmitting, error, askCalls>>

\* the X button: onClose
CloseAsk ==
    /\ ~isLoading
    /\ showAskModal
    /\ showAskModal' = FALSE
    /\ UNCHANGED <<now, authVars, notifVars, listVars, detailVars, showAuthModal, formData,
                   newTag, askSubmitting, error, askCalls>>

\* the Cancel button: onClose and setError('')
CancelAsk ==
    /\ ~isLoading
    /\ showAskModal
    /\ showAskModal' = FALSE
    /\ error' = ""
    /\ UNCHANGED <<now, authVars, notifVars, listVars, detailVars, showAuthModal, formData,
                   newTag, askSubmitting, askCalls>>

\* the disabled attribute of 'Post Your Question'
submitDisabled ==
    \/ trim(formData.title) = <<>>
    \/ trim(formData.description) = <<>>
    \/ Len(formData.tags) = 0
    \/ askSubmitting

\* the message handleSubmit sets for a form, "" for a form it accepts
validate(form) ==
    IF trim(form.title) = <<>> THEN "Please enter a title for your question"
    ELSE IF trim(form.description) = <<>> THEN "Please provide a description for your question"
    ELSE IF Len(form.tags) = 0 THEN "Please add at least one tag"
    ELSE ""

\* handleSubmit without the validation of the form
HandleSubmitUnvalidated ==
    /\ ~isLoading
    /\ showAskModal
    /\ IF user = NoUser
       THEN UNCHANGED <<error, askSubmitting, askCalls>>
       ELSE /\ error' = ""
            /\ askSubmitting' = TRUE
            /\ Len(askCalls) < MaxSubmitCalls
            /\ askCalls' = Append(askCalls, [user |-> user, formData |-> formData])
    /\ UNCHANGED <<now, authVars, notifVars, listVars, detailVars, showAuthModal, showAskModal,
                   formData, newTag>>

\* handleSubmit up to the await, on a submit event of the form
HandleSubmit ==
    /\ ~isLoading
    /\ showAskModal
    /\ IF user = NoUser
       THEN UNCHANGED <<error, askSubmitting, askCalls>>
       ELSE IF validate(formData) # ""
            THEN /\ error' = validate(formData)
                 /\ UNCHANGED <<askSubmitting, askCalls>>
            ELSE /\ error' = ""
                 /\ askSubmitting' = TRUE
                 /\ Len(askCalls) < MaxSubmitCalls
                 /\ askCalls' = Append(askCalls, [user |-> user, formData |-> formData])
    /\ UNCHANGED <<now, authVars, notifVars, listVars, detailVars, showAuthModal, showAskModal,
                   formData, newTag>>

\* a 'Post Your Question' button that is never disabled
SubmitClickAnyTime == HandleSubmit

\* a click on 'Post Your Question'
SubmitClick == ~submitDisabled /\ HandleSubmit

\* handleSubmit after the await, with the viewer and the form of the render
\* that started it
HandleSubmitFinish(k) ==
    /\ k \in 1..Len(askCalls)
    /\ now < StartTime + MaxTime
    /\ now' = now + 1
    /\ askCalls' = WithoutIndex(askCalls, k)
    /\ LET call == askCalls[k] IN
       /\ SetHook("ask", processMentions(HookOf("ask"), call.user, call.formData.description,
                                         Id("q", now), "answer", now))
       /\ questions' = handleQuestionSubmitted(questions,
                                               newQuestion(call.formData, call.user, now))
    /\ currentPage' = 1
    /\ formData' = emptyForm
    /\ newTag' = <<>>
    /\ showAskModal' = FALSE
    /\ askSubmitting' = FALSE
    /\ UNCHANGED <<authVars, searchQuery, selectedTags, sortBy, detailVars, showAuthModal, error>>

\* an exception in the try block that leaves isSubmitting as it is
HandleSubmitThrowNoFinally(k) ==
    /\ k \in 1..Len(askCalls)
    /\ askCalls' = WithoutIndex(askCalls, k)
    /\ error' = "Failed to submit question. Please try again."
    /\ UNCHANGED <<now, authVars, notifVars, listVars, detailVars, showAuthModal, showAskModal,
                   formData, newTag, askSubmitting>>

\* handleSubmit after the await when the try block throws before an update:
\* catch sets the error message, finally clears isSubmitting
HandleSubmitThrow(k) ==
    /\ k \in 1..Len(askCalls)
    /\ askCalls' = WithoutIndex(askCalls, k)
    /\ error' = "Failed to submit question. Please try again."
    /\ askSubmitting' = FALSE
    /\ UNCHANGED <<now, authVars, notifVars, listVars, detailVars, showAuthModal, showAskModal,
                   formData, newTag>>

NextAsk ==
    \/ OnLoginClick
    \/ CloseAuthModal
    \/ HandleAskQuestion
    \/ \E text \in TitleTexts : SetTitle(text)
    \/ \E text \in DescriptionTexts : SetDescription(text)
    \/ \E text \in TagTexts : SetNewTag(text)
    \/ AddTag
    \/ \E i \in 1..Len(formData.tags) : RemoveTag(formData.tags[i])
    \/ CloseAsk
    \/ CancelAsk
    \/ \E k \in 1..Len(askCalls) : HandleSubmitFinish(k)

----------------------------------------------------------------------------
(* QuestionDetailModal: vote tally and answers *)

mockAnswers ==
    << [id |-> Id("a", 1), questionId |-> Id("q", 1),
        content |-> <<"You can use the **useState** hook for local component state ...">>,
        authorId |-> Id("", 2), createdAt |-> StartTime - 1000 * 60 * 60 * 2,
        votes |-> 15, isAccepted |-> TRUE],
       [id |-> Id("a", 2), questionId |-> Id("q", 1),
        content |-> <<"Another approach is to use **custom hooks** ...">>,
        authorId |-> Id("", 3), createdAt |-> StartTime - 1000 * 60 * 60 * 1,
        votes |-> 8, isAccepted |-> FALSE] >>

answersOf(question) ==
    Filter(mockAnswers, {i \in 1..Len(mockAnswers) : mockAnswers[i].questionId = question.id})

Vote(type, count) == [type |-> type, count |-> count]

\* the initial value of the votes state
initialVotes(question, as) ==
    [target \in {question.id} \cup {as[i].id : i \in 1..Len(as)} |->
        IF target = question.id THEN Vote("null", question.votes)
        ELSE LET i == CHOOSE j \in 1..Len(as) : as[j].id = target
             IN Vote("null", as[i].votes)]

\* handleVote with a changed vote counted like a first vote
handleVoteSingleStep(prev, targetId, voteType) ==
    LET current == prev[targetId]
        isRemovingVote == current.type = voteType
        newCount == IF isRemovingVote
                    THEN current.count + (IF voteType = "up" THEN -1 ELSE 1)
                    ELSE current.count + (IF voteType = "up" THEN 1 ELSE -1)
        newType == IF isRemovingVote THEN "null" ELSE voteType
    IN [prev EXCEPT ![targetId] = Vote(newType, newCount)]

\* handleVote that keeps the count when a vote is taken back
handleVoteKeepOnRemove(prev, targetId, voteType) ==
    LET current == prev[targetId]
        isChangingVote == current.type # "null" /\ current.type # voteType
        isRemovingVote == current.type = voteType
        newCount == IF isRemovingVote
                    THEN current.count
                    ELSE IF isChangingVote
                         THEN current.count + (IF voteType = "up" THEN 2 ELSE -2)
                         ELSE current.count + (IF voteType = "up" THEN 1 ELSE -1)
        newType == IF isRemovingVote THEN "null" ELSE voteType
    IN [prev EXCEPT ![targetId] = Vote(newType, newCount)]

\* the updater handleVote gives to setVotes
handleVote(prev, targetId, voteType) ==
    LET current == prev[targetId]
        isChangingVote == current.type # "null" /\ current.type # voteType
        isRemovingVote == current.type = voteType
        newCount == IF isRemovingVote
                    THEN current.count + (IF voteType = "up" THEN -1 ELSE 1)
                    ELSE IF isChangingVote
                         THEN current.count + (IF voteType = "up" THEN 2 ELSE -2)
                         ELSE current.count + (IF voteType = "up" THEN 1 ELSE -1)
        newType == IF isRemovingVote THEN "null" ELSE voteType
    IN [prev EXCEPT ![targetId] = Vote(newType, newCount)]

\* the count rendered next to the vote buttons of a target whose record
\* holds the count stored: votes[id]?.count || stored
shownCount(targetId, stored) ==
    IF targetId \in DOMAIN votes /\ votes[targetId].count # 0
    THEN votes[targetId].count
    ELSE stored

\* a question card of the displayed page is clicked: the detail view mounts
OpenDetail(question) ==
    /\ ~isLoading
    /\ selectedQuestion = NoQuestion
    /\ Includes(paginatedQuestions, question)
    /\ selectedQuestion' = question
    /\ answers' = answersOf(question)
    /\ votes' = initialVotes(question, answersOf(question))
    /\ newAnswer' = <<>>
    /\ isSubmitting' = FALSE
    /\ answerCalls' = <<>>
    /\ notifications' = [notifications EXCEPT !["detail"] = userEffect(user, now).list]
    /\ unreadCount' = [unreadCount EXCEPT !["detail"] = userEffect(user, now).unread]
    /\ UNCHANGED <<askVars, now, authVars, listVars>>

\* onClose: the detail view unmounts and its state is dropped; a submission
\* still inside its delay then updates nothing
CloseDetail ==
    /\ ~isLoading
    /\ selectedQuestion # NoQuestion
    /\ selectedQuestion' = NoQuestion
    /\ answers' = <<>>
    /\ votes' = NoVotes
    /\ newAnswer' = <<>>
    /\ isSubmitting' = FALSE
    /\ answerCalls' = <<>>
    /\ notifications' = [notifications EXCEPT !["detail"] = <<>>]
    /\ unreadCount' = [unreadCount EXCEPT !["detail"] = 0]
    /\ UNCHANGED <<askVars, now, authVars, listVars>>

\* HandleVote without the early return for a missing viewer
HandleVoteUnguarded(targetId, voteType) ==
    /\ ~isLoading
    /\ selectedQuestion # NoQuestion
    /\ targetId \in DOMAIN votes
    /\ votes' = handleVote(votes, targetId, voteType)
    /\ UNCHANGED <<askVars, now, authVars, notifVars, listVars, selectedQuestion, answers, newAnswer,
                   isSubmitting, answerCalls>>

\* handleVote is called with a target of the votes state in either case: by
\* a vote button (enabled for a viewer) or directly
HandleVote(targetId, voteType) ==
    /\ ~isLoading
    /\ selectedQuestion # NoQuestion
    /\ targetId \in DOMAIN votes
    /\ votes' = IF user = NoUser THEN votes ELSE handleVote(votes, targetId, voteType)
    /\ UNCHANGED <<askVars, now, authVars, notifVars, listVars, selectedQuestion, answers, newAnswer,
                   isSubmitting, answerCalls>>

\* handleAcceptAnswer: returns unless the viewer is the author of the
\* question, and then only writes a line to the console
HandleAcceptAnswer(answerId) ==
    /\ ~isLoading
    /\ selectedQuestion # NoQuestion
    /\ \E i \in 1..Len(answers) : answers[i].id = answerId
    /\ IF user = NoUser \/ user.id # selectedQuestion.authorId
       THEN UNCHANGED answers
       ELSE UNCHANGED answers
    /\ UNCHANGED <<askVars, now, authVars, notifVars, listVars, selectedQuestion, votes, newAnswer,
                   isSubmitting, answerCalls>>

\* the texts typed into the answer editor
AnswerTexts == { <<" ", " ">>, TextLong }

SetNewAnswer(text) ==
    /\ ~isLoading
    /\ selectedQuestion # NoQuestion
    /\ user # NoUser
    /\ newAnswer' = text
    /\ UNCHANGED <<askVars, now, authVars, notifVars, listVars, selectedQuestion, answers, votes,
                   isSubmitting, answerCalls>>

\* the disabled attribute of 'Post Your Answer'
answerSubmitDisabled == trim(newAnswer) = <<>> \/ isSubmitting

\* handleSubmitAnswer without the early return for a missing viewer
HandleSubmitAnswerAsGuest ==
    /\ ~isLoading
    /\ selectedQuestion # NoQuestion
    /\ IF trim(newAnswer) = <<>>
       THEN UNCHANGED <<isSubmitting, answerCalls>>
       ELSE /\ isSubmitting' = TRUE
            /\ Len(answerCalls) < MaxSubmitCalls
            /\ answerCalls' = Append(answerCalls, [user |-> user, newAnswer |-> newAnswer,
                                                   question |-> selectedQuestion])
    /\ UNCHANGED <<askVars, now, authVars, notifVars, listVars, selectedQuestion, answers, votes,
                   newAnswer>>

\* handleSubmitAnswer up to the await, on a submit event of the answer form
HandleSubmitAnswer ==
    /\ ~isLoading
    /\ selectedQuestion # NoQuestion
    /\ IF user = NoUser \/ trim(newAnswer) = <<>>
       THEN UNCHANGED <<isSubmitting, answerCalls>>
       ELSE /\ isSubmitting' = TRUE
            /\ Len(answerCalls) < MaxSubmitCalls
            /\ answerCalls' = Append(answerCalls, [user |-> user, newAnswer |-> newAnswer,
                                                   question |-> selectedQuestion])
    /\ UNCHANGED <<askVars, now, authVars, notifVars, listVars, selectedQuestion, answers, votes,
                   newAnswer>>

\* a click on 'Post Your Answer': the form is rendered for a viewer, the
\* button is disabled while the text is blank or isSubmitting
SubmitAnswerStart ==
    /\ user # NoUser
    /\ ~answerSubmitDisabled
    /\ HandleSubmitAnswer

\* a new answer that is created as the accepted one
newAnswerObjAccepted(call, t) ==
    [id |-> Id("", t), questionId |-> call.question.id, content |-> call.newAnswer,
     authorId |-> call.user.id, createdAt |-> t, votes |-> 0, isAccepted |-> TRUE]

newAnswerObj(call, t) ==
    [id |-> Id("", t), questionId |-> call.question.id, content |-> call.newAnswer,
     authorId |-> call.user.id, createdAt |-> t, votes |-> 0, isAccepted |-> FALSE]

\* handleSubmitAnswer after the await, with the viewer, text and question of
\* the render that started it
SubmitAnswerFinish(k) ==
    /\ k \in 1..Len(answerCalls)
    /\ now < StartTime + MaxTime
    /\ now' = now + 1
    /\ answerCalls' = WithoutIndex(answerCalls, k)
    /\ LET call == answerCalls[k] IN
       /\ answers' = answers \o <<newAnswerObj(call, now)>>
       /\ SetHook("detail", processMentions(HookOf("detail"), call.user, call.newAnswer,
                                            call.question.id, "answer", now))
    /\ votes' = [target \in DOMAIN votes \cup {Id("", now)} |->
                    IF target = Id("", now) THEN Vote("null", 0) ELSE votes[target]]
    /\ newAnswer' = <<>>
    /\ isSubmitting' = FALSE
    /\ UNCHANGED <<askVars, authVars, listVars, selectedQuestion>>

\* handleSubmitAnswer after the await when the try block throws before an
\* update: catch logs, finally clears isSubmitting
SubmitAnswerThrow(k) ==
    /\ k \in 1..Len(answerCalls)
    /\ answerCalls' = WithoutIndex(answerCalls, k)
    /\ isSubmitting' = FALSE
    /\ UNCHANGED <<askVars, now, authVars, notifVars, listVars, selectedQuestion, answers, votes,
                   newAnswer>>

NextDetail ==
    \/ \E i \in 1..Len(paginatedQuestions) : OpenDetail(paginatedQuestions[i])
    \/ CloseDetail
    \/ \E targetId \in DOMAIN votes, voteType \in {"up", "down"} : HandleVote(targetId, voteType)
    \/ \E text \in AnswerTexts : SetNewAnswer(text)
    \/ SubmitAnswerStart
    \/ \E k \in 1..Len(answerCalls) : SubmitAnswerFinish(k)
    \/ \E i \in 1..Len(answers) : HandleAcceptAnswer(answers[i].id)

----------------------------------------------------------------------------
(* Specifications *)

\* the whole application
Init == InitAuth(RegisterNames) /\ InitDetail /\ InitAsk /\ \E n \in 0..MaxMock : InitListing(n)

Next == NextAuth \/ NextHook \/ NextListing \/ NextDetail

Spec == Init /\ [][Next]_vars

\* the notification hook: every call of the hook's interface on one instance,
\* for each viewer the page can start with
InitNotif == InitAuth(RegisterNames) /\ InitDetail /\ InitAsk /\ InitListing(0)

NextNotif == Startup \/ Logout \/ NextHook

SpecNotif == InitNotif /\ [][NextNotif]_vars

\* the session: every interleaving of login, register and logout
SpecAuth == InitNotif /\ [][NextAuth]_vars

\* the session when calls are started by a current viewer only: every call in
\* flight while no viewer is current was started before the logout
NextStale ==
    \/ Startup
    \/ Logout
    \/ \E c \in Credentials : user # NoUser /\ LoginStart(c[1], c[2])
    \/ \E name \in RegisterNames : user # NoUser /\ RegisterStart(name)
    \/ \E call \in authCalls : LoginFinish(call)
    \/ \E call \in authCalls : RegisterFinish(call)

SpecStale == InitNotif /\ [][NextStale]_vars

\* the notification history: the operations that add records, for every
\* viewer that a saved session, login or register gives
NextHistory == NextAuth \/ NextHookAdds

SpecHistory == InitNotif /\ [][NextHistory]_vars

\* the listing pipeline: an empty collection, a single question, one full
\* page, and the largest collection
InitListings ==
    InitAuth({}) /\ InitDetail /\ InitAsk /\ \E n \in {0, 1, ITEMS_PER_PAGE, MaxMock} : InitListing(n)

NextListings == Startup \/ NextListing

SpecListing == InitListings /\ [][NextListings]_vars

\* the ask-question form, with handleSubmit run on every submit event
InitForms == InitAuth({}) /\ InitDetail /\ InitAsk /\ InitListing(1)

NextForms == Startup \/ Logout \/ NextAsk \/ HandleSubmit

SpecForms == InitForms /\ [][NextForms]_vars

\* the operations that create records, run with and without a viewer: both
\* forms filled by a viewer who then logs out, and the hook of the header
InitGuest == InitAuth({}) /\ InitDetail /\ InitAsk /\ InitListing(1)

NextGuest ==
    \/ Startup
    \/ Logout
    \/ HandleAskQuestion
    \/ \E text \in TitleTexts : trim(text) # <<>> /\ SetTitle(text)
    \/ \E text \in DescriptionTexts : trim(text) # <<>> /\ SetDescription(text)
    \/ \E text \in TagTexts : trim(text) # <<>> /\ SetNewTag(text)
    \/ AddTag
    \/ HandleSubmit
    \/ \E k \in 1..Len(askCalls) : HandleSubmitFinish(k)
    \/ \E i \in 1..Len(paginatedQuestions) : OpenDetail(paginatedQuestions[i])
    \/ SetNewAnswer(TextLong)
    \/ HandleSubmitAnswer
    \/ \E k \in 1..Len(answerCalls) : SubmitAnswerFinish(k)
    \/ \E inst \in HookScope :
          \/ TimerInject(inst, TRUE, TRUE)
          \/ \E n \in DirectNotifications : ~n.read /\ AddNotification(inst, n)
          \/ ProcessMentions(inst, TextLong, Id("q", 1), "answer")

SpecGuest == InitGuest /\ [][NextGuest]_vars

\* the tag list of the form, with more tags typed than it may hold
TagInputs ==
    { <<" ">>, <<"a">>, <<" ", "a">>, <<"b", " ">>, <<"c">>, <<"d">>, <<"e">>, <<"f">> }

NextTags ==
    \/ Startup
    \/ HandleAskQuestion
    \/ \E text \in TagInputs : SetNewTag(text)
    \/ AddTag
    \/ \E i \in 1..Len(formData.tags) : RemoveTag(formData.tags[i])

SpecTags == InitForms /\ [][NextTags]_vars

\* the submissions of both forms with their timers: a submission is started
\* while the clock of the model leaves room for it to complete, and the timer
\* of a started submission fires
ClockLeft == now + Len(askCalls) + Len(answerCalls) < StartTime + MaxTime

AskSettles == \E k \in 1..Len(askCalls) : HandleSubmitFinish(k) \/ HandleSubmitThrow(k)

AnswerSettles == \E k \in 1..Len(answerCalls) : SubmitAnswerFinish(k) \/ SubmitAnswerThrow(k)

NextTimers ==
    \/ Startup
    \/ Logout
    \/ HandleAskQuestion
    \/ SetTitle(<<" ", "J", "s", " ">>)
    \/ SetDescription(<<"r", "e", "f">>)
    \/ SetNewTag(<<" ", "u", "i", " ">>)
    \/ AddTag
    \/ CloseAsk
    \/ ClockLeft /\ SubmitClick
    \/ AskSettles
    \/ \E i \in 1..Len(paginatedQuestions) : OpenDetail(paginatedQuestions[i])
    \/ CloseDetail
    \/ SetNewAnswer(<<"o", "k">>)
    \/ ClockLeft /\ SubmitAnswerStart
    \/ AnswerSettles

SpecTimers ==
    InitForms /\ [][NextTimers]_vars /\ WF_vars(AskSettles) /\ WF_vars(AnswerSettles)

\* both forms driven through their controls only
NextControls ==
    \/ Startup
    \/ Logout
    \/ HandleAskQuestion
    \/ \E text \in TitleTexts : SetTitle(text)
    \/ \E text \in DescriptionTexts : SetDescription(text)
    \/ \E text \in TagTexts : SetNewTag(text)
    \/ AddTag
    \/ CloseAsk
    \/ SubmitClick
    \/ \E k \in 1..Len(askCalls) : HandleSubmitFinish(k)
    \/ \E i \in 1..Len(paginatedQuestions) : OpenDetail(paginatedQuestions[i])
    \/ CloseDetail
    \/ \E text \in AnswerTexts : SetNewAnswer(text)
    \/ SubmitAnswerStart
    \/ \E k \in 1..Len(answerCalls) : SubmitAnswerFinish(k)

SpecControls == InitForms /\ [][NextControls]_vars

\* the answers of a detail view; the third question is the demo user's
InitAnswers == InitAuth({}) /\ InitDetail /\ InitAsk /\ InitListing(3)

NextAnswers ==
    \/ Startup
    \/ Logout
    \/ \E i \in 1..Len(paginatedQuestions) : OpenDetail(paginatedQuestions[i])
    \/ CloseDetail
    \/ \E text \in AnswerTexts : SetNewAnswer(text)
    \/ HandleSubmitAnswer
    \/ \E k \in 1..Len(answerCalls) : SubmitAnswerFinish(k)
    \/ \E i \in 1..Len(answers) : HandleAcceptAnswer(answers[i].id)

SpecAnswers == InitAnswers /\ [][NextAnswers]_vars

\* the detail view of the first questions of the collection
InitVotes == InitAuth({}) /\ InitDetail /\ InitAsk /\ InitListing(2)

NextVotes == Startup \/ Logout \/ NextDetail

SpecVotes == InitVotes /\ [][NextVotes]_vars

\* the question collection under listing, voting, answering and asking, from
\* a collection of more than one page
InitFrame == InitAuth({}) /\ InitDetail /\ InitAsk /\ InitListing(ITEMS_PER_PAGE + 1)

NextFrame ==
    \/ Startup
    \/ Logout
    \/ \E query \in {<<>>, <<"r", "E">>} : OnSearchChange(query)
    \/ \E key \in {"newest", "votes"} : SortChange(key)
    \/ \E p \in 1..totalPages : PageClick(p)
    \/ \E form \in QuestionForms : HandleQuestionSubmitted(form)
    \/ \E i \in 1..Len(paginatedQuestions) : OpenDetail(paginatedQuestions[i])
    \/ CloseDetail
    \/ \E targetId \in DOMAIN votes : HandleVote(targetId, "up")
    \/ SetNewAnswer(TextLong)
    \/ SubmitAnswerStart
    \/ \E k \in 1..Len(answerCalls) : SubmitAnswerFinish(k)

SpecFrame == InitFrame /\ [][NextFrame]_vars

----------------------------------------------------------------------------
(* Properties *)

\* C1: in every reachable state of the notification hook, unreadCount equals
\* the number of records of the list whose read flag is false
UnreadCountMatchesList ==
    \A inst \in Instances : unreadCount[inst] = Unread(notifications[inst])

\* the six rows of the vote table: the state and count after voteType
VoteTable(current, voteType) ==
    CASE current.type = "null" /\ voteType = "up"   -> Vote("up", current.count + 1)
      [] current.type = "null" /\ voteType = "down" -> Vote("down", current.count - 1)
      [] current.type = "up"   /\ voteType = "up"   -> Vote("null", current.count - 1)
      [] current.type = "up"   /\ voteType = "down" -> Vote("down", current.count - 2)
      [] current.type = "down" /\ voteType = "down" -> Vote("null", current.count + 1)
      [] current.type = "down" /\ voteType = "up"   -> Vote("up", current.count + 2)

\* C2: with a current viewer every handleVote step follows the six-row table
\* for its target and leaves the entries of all other targets unchanged
VoteFollowsTable ==
    [][\A targetId \in DOMAIN votes, voteType \in {"up", "down"} :
          (user # NoUser /\ HandleVote(targetId, voteType)) =>
              /\ DOMAIN votes' = DOMAIN votes
              /\ votes'[targetId] = VoteTable(votes[targetId], voteType)
              /\ \A other \in DOMAIN votes \ {targetId} : votes'[other] = votes[other]]_vars

\* a viewer has switched or cast votes: one target is up and another is down
VoteCast ==
    /\ user # NoUser
    /\ \E t1, t2 \in DOMAIN votes : votes[t1].type = "up" /\ votes[t2].type = "down"

\* the vote count stored in the record of a target of the open detail view
StoredVotes(targetId) ==
    IF targetId = selectedQuestion.id THEN selectedQuestion.votes
    ELSE LET i == CHOOSE j \in 1..Len(answers) : answers[j].id = targetId
         IN answers[i].votes

VoteDelta(type) == CASE type = "up" -> 1 [] type = "down" -> -1 [] type = "null" -> 0

\* C3: for every target the tallied count is the stored vote count plus 1
\* (up), minus 1 (down) or plus 0 (none), after every sequence of votes
TallyIsBaselinePlusDelta ==
    selectedQuestion # NoQuestion =>
        /\ DOMAIN votes = {selectedQuestion.id} \cup {answers[i].id : i \in 1..Len(answers)}
        /\ \A targetId \in DOMAIN votes :
              votes[targetId].count = StoredVotes(targetId) + VoteDelta(votes[targetId].type)

\* the votes of a submitted answer and of the question have both been changed
\* and one of them taken back
TallyMoved ==
    /\ selectedQuestion # NoQuestion
    /\ Len(answers) > Len(answersOf(selectedQuestion))
    /\ votes[answers[Len(answers)].id].type = "down"
    /\ votes[selectedQuestion.id].type = "up"
    /\ \E i \in 1..Len(answers) : votes[answers[i].id].type = "null"

\* C4: without a current viewer a handleVote step changes no vote state
VoteWithoutViewerIsNoOp ==
    [][\A targetId \in DOMAIN votes, voteType \in {"up", "down"} :
          (user = NoUser /\ HandleVote(targetId, voteType)) => votes' = votes]_vars

\* the detail view is open without a viewer while votes cast earlier are held
VotesHeldWithoutViewer ==
    /\ user = NoUser
    /\ ~isLoading
    /\ selectedQuestion # NoQuestion
    /\ \E targetId \in DOMAIN votes : votes[targetId].type # "null"

\* the pages p..n of a list, one after the other
RECURSIVE ConcatPages(_, _, _)
ConcatPages(list, p, n) ==
    IF p > n THEN <<>> ELSE page(list, p) \o ConcatPages(list, p + 1, n)

\* C5: every page of the listing has at most 6 items, and the pages
\* 1..totalPages in order are exactly the filtered-and-sorted list
PagesPartitionListing ==
    LET list == filteredQuestions
        pages == pageCount(list)
    IN /\ \A p \in 1..(pages + 1) : Len(page(list, p)) <= 6
       /\ Len(page(list, currentPage)) <= 6
       /\ ConcatPages(list, 1, pages) = list

\* a filtered listing of several pages whose last page is not full
SeveralPagesFiltered ==
    /\ Len(selectedTags) > 0
    /\ sortBy = "votes"
    /\ totalPages >= 2
    /\ Len(filteredQuestions) % 6 # 0

\* C6: totalPages is the ceiling of the filtered count over 6, the last page
\* holds the remainder, a page beyond totalPages is empty; 13 items give 3
\* pages, 1 item on page 3 and an empty page 4
PageCountIsCeiling ==
    LET list == filteredQuestions
        n == Len(list)
        pages == pageCount(list)
    IN /\ pages >= 0
       /\ pages * 6 >= n
       /\ pages > 0 => (pages - 1) * 6 < n
       /\ pages > 0 => Len(page(list, pages)) = n - 6 * (pages - 1)
       /\ \A p \in (pages + 1)..(pages + 3) : page(list, p) = <<>>
       /\ n = 13 => /\ pages = 3
                    /\ Len(page(list, 3)) = 1
                    /\ page(list, 4) = <<>>

\* the filtered list has 13 items
ThirteenItems == Len(filteredQuestions) = 13

\* the letters of s made lower case, and sub occurring in s
Folded(s) ==
    [i \in 1..Len(s) |->
        IF \E k \in 1..26 : UpperChars[k] = s[i]
        THEN LowerChars[CHOOSE k \in 1..26 : UpperChars[k] = s[i]]
        ELSE s[i]]

OccursIn(sub, s) ==
    \E first \in 1..(Len(s) + 1) :
        /\ first + Len(sub) - 1 <= Len(s)
        /\ \A k \in 1..Len(sub) : s[first + k - 1] = sub[k]

PassesText(question, query) ==
    \/ query = <<>>
    \/ OccursIn(Folded(query), Folded(question.title))
    \/ OccursIn(Folded(query), Folded(question.description))

PassesTag(question, tags) ==
    \/ Range(tags) = {}
    \/ Range(question.tags) \cap Range(tags) # {}

\* C7: a question passes the text filter iff the query is empty or the
\* lower-cased query occurs in the lower-cased title or description; a
\* question failing it is never listed, one passing text and tag filter is
TextFilterDecides ==
    LET listed == Range(filteredQuestions)
    IN \A i \in 1..Len(questions) :
          LET question == questions[i]
              passes == PassesText(question, searchQuery)
          IN /\ matchesSearch(question, searchQuery) <=> passes
             /\ ~passes => question \notin listed
             /\ (passes /\ PassesTag(question, selectedTags)) => question \in listed

\* an upper-case query selects a question by its description alone, another
\* by its title, and drops a third
QueryMatchesEitherField ==
    /\ searchQuery = <<"r", "E">>
    /\ \E i \in 1..Len(filteredQuestions) :
          /\ ~OccursIn(<<"r", "e">>, Folded(filteredQuestions[i].title))
          /\ OccursIn(<<"r", "e">>, Folded(filteredQuestions[i].description))
    /\ \E i \in 1..Len(filteredQuestions) :
          OccursIn(<<"r", "e">>, Folded(filteredQuestions[i].title))
    /\ Len(filteredQuestions) < Len(questions)

\* the questions listed after one more tag is selected
WithTag(tag) ==
    Range(filtered(questions, searchQuery, handleTagToggle(selectedTags, tag), sortBy))

TagFilterIsUnion ==
    LET listed == Range(filteredQuestions)
    IN \A i \in 1..Len(questions) :
          /\ matchesTags(questions[i], selectedTags) <=> PassesTag(questions[i], selectedTags)
          /\ questions[i] \in listed
                <=> (PassesText(questions[i], searchQuery) /\ PassesTag(questions[i], selectedTags))

\* C8 as stated: a question passes the tag filter iff no tag is selected or it
\* has one of the selected tags, and selecting an additional tag never shrinks
\* the filtered list
TagSelectionNeverShrinks ==
    /\ TagFilterIsUnion
    /\ LET listed == Range(filteredQuestions)
       IN \A tag \in allTags(questions) \ Range(selectedTags) : listed \subseteq WithTag(tag)

\* C8 as amended: a question passes the tag filter iff no tag is selected or
\* it has one of the selected tags, and selecting an additional tag while at
\* least one tag is selected never shrinks the filtered list
TagSelectionGrowsOnceSelected ==
    /\ TagFilterIsUnion
    /\ LET listed == Range(filteredQuestions)
       IN \A tag \in allTags(questions) \ Range(selectedTags) :
             Len(selectedTags) > 0 => listed \subseteq WithTag(tag)

\* two tags are selected and the listing has a question with only the first
\* and a question with only the second
TwoTagsUnion ==
    /\ Len(selectedTags) = 2
    /\ \E i \in 1..Len(filteredQuestions) :
          /\ Includes(filteredQuestions[i].tags, selectedTags[1])
          /\ ~Includes(filteredQuestions[i].tags, selectedTags[2])
    /\ \E i \in 1..Len(filteredQuestions) :
          /\ Includes(filteredQuestions[i].tags, selectedTags[2])
          /\ ~Includes(filteredQuestions[i].tags, selectedTags[1])

SortKey(question, key) ==
    CASE key = "newest" -> question.createdAt
      [] key = "votes" -> question.votes
      [] key = "answers" -> question.answerCount

PositionIn(qs, question) == CHOOSE i \in 1..Len(qs) : qs[i] = question

\* C9: the filtered list is in descending order of the chosen key, and
\* questions with equal keys keep their order of the question collection
SortedDescendingStable ==
    LET list == filteredQuestions
        keys == [i \in 1..Len(list) |-> SortKey(list[i], sortBy)]
        position == [i \in 1..Len(list) |-> PositionIn(questions, list[i])]
    IN \A i, j \in 1..Len(list) :
          i < j => \/ keys[i] > keys[j]
                   \/ keys[i] = keys[j] /\ position[i] < position[j]

\* sorting has moved questions and the listing holds questions of equal key
SortMovedWithTies ==
    /\ sortBy = "answers"
    /\ filteredQuestions # filterQuestions(questions, searchQuery, selectedTags)
    /\ \E i \in 1..(Len(filteredQuestions) - 1) :
          SortKey(filteredQuestions[i], sortBy) = SortKey(filteredQuestions[i + 1], sortBy)

\* the number of @tokens of text whose name is exactly name: an @, the
\* name, and then no further word character
MentionCount(text, name) ==
    Cardinality({i \in 1..Len(text) :
        /\ text[i] = "@"
        /\ name # <<>>
        /\ \A k \in 1..Len(name) : IsWordChar(name[k])
        /\ i + Len(name) <= Len(text)
        /\ \A k \in 1..Len(name) : text[i + k] = name[k]
        /\ (i + Len(name) = Len(text) \/ ~IsWordChar(text[i + Len(name) + 1]))})

\* C10: with a viewer, processMentions puts one notification into the list
\* per @token naming the viewer exactly, none for another token, and raises
\* the unread counter by the same number ("thanks @alice and @bob": one for
\* alice, none for carol); in every reachable state of the hook
MentionsNotifyNamedViewer ==
    user # NoUser =>
        \A text \in Texts, type \in {"answer", "comment"} :
            LET k == MentionCount(text, user.username)
                old == HookOf("header")
                new == processMentions(old, user, text, Id("q", 1), type, now)
            IN /\ new.unread = old.unread + k
               /\ Len(new.list) = Min(10, Len(old.list) + k)
               /\ \A i \in 1..k : /\ new.list[i].type = "mention"
                                  /\ new.list[i].relatedId = Id("q", 1)
                                  /\ new.list[i].userId = user.id
               /\ SubSeq(new.list, k + 1, Len(new.list)) = SubSeq(old.list, 1, Len(new.list) - k)
               /\ (text = TextThanks /\ user.username = alice) => k = 1
               /\ (text = TextThanks /\ user.username = carol) => k = 0

\* viewer alice holds the notification of "thanks @alice and @bob" in front
\* of the seeded list, and one more unread than seeded
MentionDelivered ==
    /\ user # NoUser
    /\ user.username = alice
    /\ Len(notifications["header"]) = 6
    /\ notifications["header"][1].type = "mention"
    /\ notifications["header"][1].message[2] = TextThanks
    /\ SubSeq(notifications["header"], 2, 6) = mockNotifications(user, StartTime)
    /\ unreadCount["header"] = 4

\* the first 50 characters of text, or all of a shorter text
Excerpt(text) == [i \in 1..(IF Len(text) < 50 THEN Len(text) ELSE 50) |-> text[i]]

\* C11: every notification processMentions creates is in front of the records
\* held before, has type mention whatever the type argument, is unread, has
\* the relatedId of the call, and its message quotes the first 50 characters
\* of the text followed by an ellipsis
MentionRecordInFront ==
    user # NoUser =>
        \A text \in Texts, type \in {"answer", "comment"} :
            LET old == HookOf("header")
                new == processMentions(old, user, text, Id("a", 7), type, now)
                created == IF MentionCount(text, user.username) < 10
                           THEN MentionCount(text, user.username) ELSE 10
            IN /\ \A i \in 1..created :
                     /\ new.list[i].type = "mention"
                     /\ new.list[i].read = FALSE
                     /\ new.list[i].relatedId = Id("a", 7)
                     /\ new.list[i].message[2] = Excerpt(text)
                     /\ new.list[i].message[3] = "...\""
                     /\ new.list[i].message[1] =
                            (IF type = "answer" THEN "You were mentioned in an answer: \""
                                                ELSE "You were mentioned in a comment: \"")
               /\ \A i \in (created + 1)..Len(new.list) : new.list[i] = old.list[i - created]

\* the demo user holds, in front of the seeded list, the unread notification
\* of a text longer than 50 characters, cut to 50
LongMentionTruncated ==
    /\ user # NoUser
    /\ Len(notifications["header"]) = 6
    /\ notifications["header"][1].type = "mention"
    /\ notifications["header"][1].read = FALSE
    /\ Len(TextLong) > 50
    /\ Len(notifications["header"][1].message[2]) = 50
    /\ notifications["header"][1].message[2] = SubSeq(TextLong, 1, 50)
    /\ notifications["header"][2].id = Id("", 1)

\* C12: no notification list ever holds more than 10 records, and neither an
\* addNotification, a processMentions nor a timer injection applied to a
\* reachable list gives more than 10
ListNeverExceedsTen ==
    /\ \A inst \in Instances : Len(notifications[inst]) <= 10
    /\ user # NoUser =>
          LET h == HookOf("header")
          IN /\ \A n \in DirectNotifications : Len(addNotification(h, user, n, now).list) <= 10
             /\ \A text \in Texts :
                   Len(processMentions(h, user, text, Id("q", 1), "answer", now).list) <= 10
             /\ \A rType \in BOOLEAN, rMessage \in BOOLEAN :
                   Len(timerInject(h, timerNotification(user, now, rType, rMessage)).list) <= 10

\* one text with six mentions has filled the seeded list of five to the cap
ListFull ==
    /\ user # NoUser
    /\ Len(notifications["header"]) = 10
    /\ \A i \in 1..6 : notifications["header"][i].message[2] = Excerpt(TextMany)
    /\ notifications["header"][10].id = Id("", 4)

\* C13: when an add overflows the cap of 10, the records kept are those held
\* before without one record, and that record has the earliest createdAt of
\* the records held before
EvictionDropsOldest ==
    (user # NoUser /\ Len(notifications["header"]) = 10) =>
        \A n \in DirectNotifications :
            LET old == notifications["header"]
                new == addNotification(HookOf("header"), user, n, now).list
            IN \E e \in 1..Len(old) :
                  /\ SubSeq(new, 2, Len(new)) = WithoutIndex(old, e)
                  /\ \A j \in 1..Len(old) : old[e].createdAt <= old[j].createdAt

\* s is empty or holds white space only
IsBlank(s) == \A i \in 1..Len(s) : s[i] \in {" ", "\t", "\n"}

\* C14: a handleSubmit step of a viewer on a form with a blank title sets the
\* title message, one with a blank description the description message, one
\* without tags the tag message, in this order of precedence; such a step
\* creates no question, starts no delay and leaves isSubmitting as it was
\* (false when no submission is in flight); any other form is accepted
BlankSubmissionRejected ==
    [][(HandleSubmit /\ user # NoUser) =>
          LET rejected == /\ questions' = questions
                          /\ askCalls' = askCalls
                          /\ askSubmitting' = askSubmitting
                          /\ (askCalls = <<>> => askSubmitting' = FALSE)
                          /\ now' = now
          IN IF IsBlank(formData.title)
             THEN error' = "Please enter a title for your question" /\ rejected
             ELSE IF IsBlank(formData.description)
             THEN error' = "Please provide a description for your question" /\ rejected
             ELSE IF formData.tags = <<>>
             THEN error' = "Please add at least one tag" /\ rejected
             ELSE /\ error' = ""
                  /\ askSubmitting'
                  /\ askCalls' = Append(askCalls, [user |-> user, formData |-> formData])]_vars

\* a viewer's form with a white-space title, a description and a tag shows
\* the title message, and nothing is in flight
TitleRejected ==
    /\ user # NoUser
    /\ showAskModal
    /\ formData.title = <<" ", " ">>
    /\ ~IsBlank(formData.description)
    /\ Len(formData.tags) > 0
    /\ error = "Please enter a title for your question"
    /\ askCalls = <<>>
    /\ ~askSubmitting
    /\ Len(questions) = 1

\* the records and the calls that would create records
Records == <<questions, answers, notifications, unreadCount, askCalls, answerCalls>>

\* C15: without a viewer, a handleSubmit, handleSubmitAnswer, addNotification
\* or processMentions step changes no question, answer or notification
\* record and no unread counter and starts no delay, and no timer injection
\* step happens
NoRecordWithoutViewer ==
    [][user = NoUser =>
          /\ HandleSubmit => UNCHANGED Records
          /\ HandleSubmitAnswer => UNCHANGED Records
          /\ \A inst \in Instances :
                /\ \A n \in DirectNotifications : AddNotification(inst, n) => UNCHANGED Records
                /\ ProcessMentions(inst, TextLong, Id("q", 1), "answer") => UNCHANGED Records
                /\ \A rType \in BOOLEAN, rMessage \in BOOLEAN :
                      ~TimerInject(inst, rType, rMessage)]_vars

\* after a logout both forms are open and hold a complete question and an
\* answer, nothing is in flight and every notification list is empty
FormsFilledWithoutViewer ==
    /\ user = NoUser
    /\ ~isLoading
    /\ showAskModal
    /\ validate(formData) = ""
    /\ selectedQuestion # NoQuestion
    /\ trim(newAnswer) # <<>>
    /\ askCalls = <<>>
    /\ answerCalls = <<>>
    /\ \A inst \in Instances : notifications[inst] = <<>> /\ unreadCount[inst] = 0

\* C16: after the startup load the storage key holds a record iff a viewer
\* exists, and the record is the viewer's, under every interleaving of
\* login, register and logout; the stored record is read by the startup
\* load only, which runs once
StorageHoldsViewer ==
    /\ [](~isLoading => IF user = NoUser THEN storage = NoItem
                                          ELSE storage # NoItem /\ Parse(storage) = user)
    /\ [][Startup => (isLoading /\ ~isLoading')]_vars
    /\ [][~isLoading => ~isLoading']_vars

\* a registered viewer is stored while a login with the demo credentials,
\* started before, is still inside its delay
RegisteredWhileLoginInFlight ==
    /\ user # NoUser
    /\ user.username = alice
    /\ Parse(storage) = user
    /\ [kind |-> "login", email |-> "demo@stackit.com", password |-> "demo123"] \in authCalls

\* C17: a login call returns true iff its email is demo@stackit.com and its
\* password is demo123; then the demo user is the viewer and is stored; on
\* other credentials it returns false and leaves viewer and stored record
LoginFailsClosed ==
    [][\A call \in authCalls :
          LoginFinish(call) =>
              /\ authReturn'.call = call
              /\ authReturn'.value = (call.email = "demo@stackit.com" /\ call.password = "demo123")
              /\ authReturn'.value => (user' = demoUser /\ Parse(storage') = demoUser)
              /\ ~authReturn'.value => UNCHANGED <<user, storage, notifications, unreadCount>>]_vars

\* a login with a wrong password has returned false to a viewer, who is
\* still the viewer and still stored
LoginRefused ==
    /\ authReturn # NoReturn
    /\ authReturn.call.kind = "login"
    /\ authReturn.call.email = "demo@stackit.com"
    /\ authReturn.value = FALSE
    /\ user # NoUser
    /\ user.username = carol
    /\ Parse(storage) = user

AtMostOneAccepted ==
    /\ [](Cardinality({i \in 1..Len(answers) : answers[i].isAccepted}) <= 1)
    /\ [][\A k \in 1..Len(answerCalls) :
              SubmitAnswerFinish(k) =>
                  /\ Len(answers') = Len(answers) + 1
                  /\ ~answers'[Len(answers')].isAccepted
                  /\ \A i \in 1..Len(answers) : answers'[i] = answers[i]]_vars
    /\ [][\A i \in 1..Len(answers) :
              (/\ HandleAcceptAnswer(answers[i].id)
               /\ (user = NoUser \/ user.id # selectedQuestion.authorId)) =>
                  answers' = answers]_vars

\* a question with an accepted answer has got a submitted answer next to
\* its two stored ones, and its viewer is not its author
AnswerAddedBesideAccepted ==
    /\ selectedQuestion # NoQuestion
    /\ Len(answers) = 3
    /\ answers[1].isAccepted
    /\ user # NoUser
    /\ user.id # selectedQuestion.authorId
    /\ answers[3].authorId = user.id

\* C20: no step changes or removes a stored question or reorders the
\* collection: listing, voting and answer submission leave it as it is, the
\* only change is a submitted question put in front of the unchanged
\* others; every detail view that opens shows a stored question, with vote
\* none and the stored count for the question and for each of its answers
StoredQuestionsKept ==
    /\ [][\/ questions' = questions
          \/ /\ \E form \in QuestionForms : HandleQuestionSubmitted(form)
             /\ Len(questions') = Len(questions) + 1
             /\ Tail(questions') = questions]_vars
    /\ [][\A i \in 1..Len(paginatedQuestions) :
              OpenDetail(paginatedQuestions[i]) =>
                  LET q == selectedQuestion' IN
                  /\ Includes(questions', q)
                  /\ votes'[q.id] = Vote("null", q.votes)
                  /\ \A j \in 1..Len(answers') :
                        votes'[answers'[j].id] = Vote("null", answers'[j].votes)]_vars

\* the listing is sorted by votes, the question shown has a vote on it and
\* a submitted answer, and its stored record still has its own count and
\* answerCount
VotedAnsweredAndSorted ==
    /\ sortBy = "votes"
    /\ selectedQuestion # NoQuestion
    /\ Includes(questions, selectedQuestion)
    /\ votes[selectedQuestion.id].type = "up"
    /\ votes[selectedQuestion.id].count = selectedQuestion.votes + 1
    /\ Len(answers) > Len(answersOf(selectedQuestion))
    /\ selectedQuestion.answerCount # Len(answers)

\* C21: for the question and every answer of the open detail view the count
\* shown equals the tallied count of the vote state, also when that count is 0
ShownCountIsTally ==
    selectedQuestion # NoQuestion =>
        \A targetId \in DOMAIN votes :
            shownCount(targetId, StoredVotes(targetId)) = votes[targetId].count

\* C22: every search change, tag toggle, sort change, clearFilters and every
\* accepted new question sets the page to 1 in the same step; no step changes
\* the query, the selected tags, the sort key or the collection and leaves
\* the page above 1
FilterChangeResetsPage ==
    /\ [][(\/ \E query \in Queries : OnSearchChange(query)
           \/ \E tag \in allTags(questions) : HandleTagToggle(tag)
           \/ \E key \in SortKeys : SortChange(key)
           \/ ClearFilters
           \/ \E form \in QuestionForms : HandleQuestionSubmitted(form)) => currentPage' = 1]_vars
    /\ [][(\/ searchQuery' # searchQuery
           \/ selectedTags' # selectedTags
           \/ sortBy' # sortBy
           \/ questions' # questions) => currentPage' = 1]_vars

\* page 1 of a listing of several pages is shown with a query, a tag and a
\* sort key other than the initial ones, and a submitted question in front
FiltersSetOnFirstPage ==
    /\ currentPage = 1
    /\ totalPages > 1
    /\ searchQuery # <<>>
    /\ selectedTags # <<>>
    /\ sortBy # "newest"
    /\ Len(questions) > 0
    /\ questions[1].views = 0

\* text without white space at its ends
IsTrimmed(text) ==
    text = <<>> \/ (~IsSpaceChar(text[1]) /\ ~IsSpaceChar(text[Len(text)]))

\* C23: a question submission that completes puts exactly one record in
\* front of the collection, the earlier records following unchanged and in
\* their order; the record has the trimmed title and description and the tags
\* of the submitted form, the viewer who started the submission as author,
\* views, votes and answerCount 0 and no answer, accepted or other; the form
\* is reset and the modal closed
SubmittedQuestionInFront ==
    [][\A k \in 1..Len(askCalls) :
          HandleSubmitFinish(k) =>
              LET call == askCalls[k]
                  q == questions'[1]
              IN /\ Len(questions') = Len(questions) + 1
                 /\ Tail(questions') = questions
                 /\ q.title = trim(call.formData.title) /\ IsTrimmed(q.title) /\ q.title # <<>>
                 /\ q.description = trim(call.formData.description) /\ IsTrimmed(q.description)
                 /\ q.tags = call.formData.tags
                 /\ q.authorId = call.user.id
                 /\ q.views = 0 /\ q.votes = 0 /\ q.answerCount = 0
                 /\ answersOf(q) = <<>>
                 /\ formData' = emptyForm
                 /\ newTag' = <<>>
                 /\ ~showAskModal']_vars

\* the question typed as " Js " is in front as "Js", submitted by a viewer
\* who has logged out since; the form is empty and the modal closed
QuestionOfLoggedOutViewerInFront ==
    /\ Len(questions) = 2
    /\ questions[1].title = <<"J", "s">>
    /\ questions[1].views = 0
    /\ questions[2] = mockQuestion(1)
    /\ ~isLoading
    /\ user = NoUser
    /\ formData = emptyForm
    /\ ~showAskModal

\* C24: the tag list of the form never holds a tag twice, a blank tag or
\* more than 5 tags; addTag appends the trimmed input at the end, and changes
\* nothing for a blank input, a tag already held or a list of 5; removeTag
\* takes out the named tag and keeps the others in their order
TagListWellFormed ==
    /\ [](LET tags == formData.tags IN
          /\ Len(tags) <= 5
          /\ \A i, j \in 1..Len(tags) : tags[i] = tags[j] => i = j
          /\ \A i \in 1..Len(tags) : tags[i] # <<>> /\ ~IsBlank(tags[i]))
    /\ [][AddTag =>
              IF \/ IsBlank(newTag)
                 \/ \E i \in 1..Len(formData.tags) : formData.tags[i] = trim(newTag)
                 \/ Len(formData.tags) = 5
              THEN formData' = formData /\ newTag' = newTag
              ELSE /\ formData'.tags = Append(formData.tags, trim(newTag))
                   /\ formData'.title = formData.title
                   /\ formData'.description = formData.description]_vars
    /\ [][\A i \in 1..Len(formData.tags) :
              RemoveTag(formData.tags[i]) =>
                  /\ formData'.tags = SubSeq(formData.tags, 1, i - 1)
                                          \o SubSeq(formData.tags, i + 1, Len(formData.tags))
                  /\ formData'.title = formData.title
                  /\ formData'.description = formData.description]_vars

\* five tags are held, the first typed one taken out and added again at the
\* end
FiveTagsReordered ==
    /\ Len(formData.tags) = 5
    /\ formData.tags[1] = <<"b">>
    /\ formData.tags[5] = <<"a">>
    /\ newTag = <<>>

\* C25: a started question or answer submission settles: its isSubmitting
\* flag, once true, becomes false again, by success or by an exception, so
\* the flag never keeps a submit control disabled forever
SubmissionsSettle ==
    /\ askSubmitting ~> ~askSubmitting
    /\ isSubmitting ~> ~isSubmitting
    /\ (askCalls # <<>>) ~> (askCalls = <<>>)

\* a question submission has failed and an answer submission has succeeded;
\* neither flag is set
BothSettled ==
    /\ error = "Failed to submit question. Please try again."
    /\ ~askSubmitting
    /\ showAskModal
    /\ selectedQuestion # NoQuestion
    /\ Len(answers) > Len(answersOf(selectedQuestion))
    /\ ~isSubmitting

\* C26: the current page is at least 1 and at most max(1, totalPages) in
\* every state; so the displayed page is empty only when the filtered list is
CurrentPageInRange ==
    LET list == filteredQuestions
        pages == pageCount(list)
    IN /\ 1 <= currentPage
       /\ currentPage <= (IF pages > 1 THEN pages ELSE 1)
       /\ page(list, currentPage) = <<>> => list = <<>>

\* the last page of a filtered listing of several pages is shown
LastPageShown ==
    /\ totalPages >= 2
    /\ currentPage = totalPages
    /\ (searchQuery # <<>> \/ selectedTags # <<>>)

\* C27: while there is no viewer, the notification list of every
\* useNotifications instance is empty and its unread counter is 0, also
\* after a submission that was started before a logout has completed
NoViewerNoNotifications ==
    (~isLoading /\ user = NoUser) =>
        \A inst \in Instances : notifications[inst] = <<>> /\ unreadCount[inst] = 0

\* C28: a notification that processMentions appends during a question
\* submission is the first record of the list the header displays, and the
\* header's unread counter goes up by one
MentionReachesHeader ==
    [][\A k \in 1..Len(askCalls) :
          (/\ HandleSubmitFinish(k)
           /\ Len(notifications'["ask"]) > Len(notifications["ask"])) =>
              /\ notifications'["header"] # <<>>
              /\ notifications'["header"][1] = notifications'["ask"][1]
              /\ unreadCount'["header"] = unreadCount["header"] + 1]_vars

\* C29: markAsRead with the id of a record that is already read, or with an
\* id that is not in the list, changes neither the list nor the unread
\* counter; so a second markAsRead(id) after a first leaves what the first left
MarkAsReadIdempotent ==
    [][\A inst \in Instances :
          \A id \in {notifications[inst][i].id : i \in 1..Len(notifications[inst])}
                       \cup {Id("", 0)} :
              (/\ MarkAsRead(inst, id)
               /\ \A i \in 1..Len(notifications[inst]) :
                     notifications[inst][i].id = id => notifications[inst][i].read) =>
                  /\ notifications'[inst] = notifications[inst]
                  /\ unreadCount'[inst] = unreadCount[inst]]_vars

\* C30: once logout has run, no viewer is current and the storage key stays
\* removed as long as no call started after the logout succeeds; here calls
\* are started by a viewer only, so after the startup load a state without a
\* viewer is followed by states without a viewer and without a stored record
LogoutOutlastsPendingCalls ==
    [][(~isLoading /\ user = NoUser) => (user' = NoUser /\ storage' = NoItem)]_vars

============================================================================
